---- MODULE Spec2Model ----
(***************************************************************************)
(* The Google Search Console ETL script ("Google Query ETL/script.py") as  *)
(* a state machine.  One behaviour is a sequence of runs of the script     *)
(* (one process per run).  What lives outside the process persists from    *)
(* run to run: the objects under the S3 prefix, the Snowflake staging and  *)
(* destination tables, the load metadata of the staging table and the      *)
(* files of the working directory.  Every network call of the script is a  *)
(* step that either succeeds or raises.                                    *)
(***************************************************************************)
EXTENDS Integers, Sequences, FiniteSets, TLC

VARIABLES
    pc,          \* position of the running script ("idle" between runs)
    runNo,       \* number of runs started so far
    creds,       \* [account, user]: SNOWFLAKE_ACCOUNT / SNOWFLAKE_USER of this run
    BATCH_SIZE,  \* int(os.getenv("BATCH_SIZE", "100000"))
    net,         \* the calls this run has made to pip, Google, Snowflake and S3, by kind
    conn,        \* warehouse connection: "none", "open", "closed"
    cursor,      \* cursor of load_to_snowflake: "none", "open", "closed"
    df,          \* the data frame of run_etl (a sequence of rows)
    i,           \* loop variable of upload_to_s3
    uploaded,    \* this run's s3.upload_file calls: <<file number, content>>
    localFiles,  \* files batch_k.csv of the working directory: k -> content
    s3,          \* objects under s3://BUCKET/FOLDER/: k (batch_k.csv) -> content
    staging,     \* rows of STAGING_TABLE
    loadMeta,    \* load metadata of STAGING_TABLE: <<k, content>> already copied
    dest,        \* rows of SNOWFLAKE_TABLE
    listed,      \* response['Contents'] still to be deleted by clear_s3_folder
    deleted,     \* keys this run deleted from the object store
    trace,       \* this run's statements and store calls, in order
    log,         \* this run's printed lines
    caught,      \* number of times the except clause of run_etl ran in this run
    mergeIns,    \* staging rows this run's MERGE inserted
    mergeUpd,    \* staging rows this run's MERGE applied as updates
    start,       \* what this run found when it started
    prev         \* summary of the previous run

vars == <<pc, runNo, creds, BATCH_SIZE, net, conn, cursor, df, i, uploaded,
          localFiles, s3, staging, loadMeta, dest, listed, deleted, trace, log,
          caught, mergeIns, mergeUpd, start, prev>>

(***************************************************************************)
(* Bounds of the model.                                                    *)
(***************************************************************************)
MaxRuns == 2        \* runs of the script in one behaviour
MaxRows == 2        \* rows in one API response
MaxBatch == 2       \* largest BATCH_SIZE tried
\* s3.list_objects_v2 returns at most one page of keys (1000 in S3) and
\* clear_s3_folder reads one page only.  The page is scaled down with the
\* row bounds so that a prefix holding more than one page is reached.
MaxKeys == 2

CLIENT == "OCF"
client == "ocf"
OtherClient == "acme"
NULL == "NULL"

Queries == <<"q1", "q2", "q3", "q4", "q5", "q6">>
DateStr == <<"2026-11-01", "2026-11-02">>

\* the metrics of a response: absent from every row (0), or present with this value
Versions == {0, 1}

Min(S) == CHOOSE x \in S : \A y \in S : x <= y
MinOf(a, b) == IF a <= b THEN a ELSE b

EmptyMap == [x \in {} |-> 0]
Put(f, k, v) == [x \in (DOMAIN f) \cup {k} |-> IF x = k THEN v ELSE f[x]]
Remove(f, k) == [x \in (DOMAIN f) \ {k} |-> f[x]]

(***************************************************************************)
(* connect_snowflake: "if not SNOWFLAKE_ACCOUNT or not SNOWFLAKE_USER".    *)
(* An environment value is "none" (absent), "empty" or "set".              *)
(***************************************************************************)
Falsy(v) == v \in {"none", "empty"}

CredentialsMissingUserOnly(c) == Falsy(c.user)

CredentialsMissing(c) == Falsy(c.account) \/ Falsy(c.user)

(***************************************************************************)
(* fetch_data_from_gsc.  A response is a record; the key "rows" may be     *)
(* absent.  A row always has "keys"; each metric may be absent.            *)
(***************************************************************************)
Get(row, k, d) == IF k \in DOMAIN row THEN row[k] ELSE d

ApiRow(q, v) ==
    IF v = 0 THEN [keys |-> <<Queries[q]>>]
    ELSE [keys |-> <<Queries[q]>>, clicks |-> v, impressions |-> v,
          ctr |-> v, position |-> v]

Responses ==
    {[responseAggregationType |-> "byProperty"]} \cup
    {[responseAggregationType |-> "byProperty",
      rows |-> [j \in 1..n |-> ApiRow(j, v)]] : n \in 0..MaxRows, v \in Versions}

\* strftime('%Y-%m-%d') of the day before `now`
Yesterday(now) == DateStr[now - 1]

\* the two readings of datetime.now(), as days numbered from 1: the second is the
\* same day as the first or the next
Clock == {t \in (2..3) \X (2..3) : t[2] \in {t[1], t[1] + 1}}

\* lines 84-101, then lines 178-179 of run_etl
FetchFrame(response, start_date, end_date) ==
    IF "rows" \in DOMAIN response
    THEN [j \in 1..Len(response.rows) |->
            [Query |-> response.rows[j].keys[1],
             Clicks |-> Get(response.rows[j], "clicks", 0),
             Impressions |-> Get(response.rows[j], "impressions", 0),
             CTR |-> Get(response.rows[j], "ctr", 0),
             Position |-> Get(response.rows[j], "position", 0),
             start_dt |-> start_date,
             end_dt |-> end_date,
             client |-> client,
             timestamp |-> ""]]
    ELSE << >>

DfEmptyNever(d) == FALSE

\* df.empty
DfEmpty(d) == Len(d) = 0

(***************************************************************************)
(* upload_to_s3                                                            *)
(***************************************************************************)
NumBatchesCeil(n, b) == (n + b - 1) \div b

NumBatches(n, b) == n \div b + 1

\* df[start_idx:end_idx]
Slice(d, start_idx, end_idx) == SubSeq(d, start_idx + 1, end_idx)

Batch(d, b, k) == Slice(d, k * b, MinOf((k + 1) * b, Len(d)))

Header == <<"Query", "Clicks", "Impressions", "CTR", "Position",
            "start_dt", "end_dt", "client", "timestamp">>

CsvLine(r) == <<r.Query, r.Clicks, r.Impressions, r.CTR, r.Position,
                r.start_dt, r.end_dt, r.client, r.timestamp>>

\* batch_data.to_csv(file_name, index=False): the header line, then a line per row
ToCsv(batch) == <<Header>> \o [j \in 1..Len(batch) |-> CsvLine(batch[j])]

(***************************************************************************)
(* load_to_snowflake: the three statements as the warehouse executes them. *)
(***************************************************************************)
\* an empty field of the file is loaded as NULL
EmptyAsNull(x) == IF x = "" THEN NULL ELSE x

\* a line of a staged file, column by column, as a row of STAGING_TABLE
ParseLine(line) ==
    [query |-> EmptyAsNull(line[1]),
     clicks |-> line[2],
     impressions |-> line[3],
     ctr |-> line[4],
     position |-> line[5],
     start_dt |-> EmptyAsNull(line[6]),
     end_dt |-> EmptyAsNull(line[7]),
     client |-> EmptyAsNull(line[8]),
     timestamp |-> EmptyAsNull(line[9])]

\* FILE_FORMAT = (TYPE = 'CSV' ... SKIP_HEADER=1)
ParseFile(content) == [j \in 1..(Len(content) - 1) |-> ParseLine(content[j + 1])]

\* COPY INTO skips a file it has loaded before with the same content
ToLoad(store, meta) == {k \in DOMAIN store : <<k, store[k]>> \notin meta}

RECURSIVE CopyRows(_, _)
CopyRows(store, keys) ==
    IF keys = {} THEN << >>
    ELSE ParseFile(store[Min(keys)]) \o CopyRows(store, keys \ {Min(keys)})

MergeMatchWithClient(t, s) ==
    t.query = s.query /\ t.start_dt = s.start_dt /\ t.end_dt = s.end_dt
    /\ t.client = s.client

MergeMatchSkewed(t, s) ==
    t.query = s.query /\ t.start_dt = s.start_dt /\ t.end_dt = s.start_dt

\* ON tgt.query = src.query AND tgt.start_dt = src.start_dt AND tgt.end_dt = src.end_dt
MergeMatch(t, s) ==
    t.query = s.query /\ t.start_dt = s.start_dt /\ t.end_dt = s.end_dt

Matching(t, src) == {m \in 1..Len(src) : MergeMatch(t, src[m])}

Matched(s, tgt) == \E j \in 1..Len(tgt) : MergeMatch(tgt[j], s)

\* more than one source row joins a target row: the statement fails
NondeterministicMerge(tgt, src) ==
    \E j \in 1..Len(tgt) : Cardinality(Matching(tgt[j], src)) > 1

\* WHEN MATCHED THEN UPDATE SET ...
UpdateRow(t, s) ==
    [t EXCEPT !.clicks = s.clicks, !.impressions = s.impressions, !.ctr = s.ctr,
              !.position = s.position, !.client = s.client]

\* WHEN NOT MATCHED THEN INSERT (...) VALUES (...)
InsertRow(s) ==
    [query |-> s.query, clicks |-> s.clicks, impressions |-> s.impressions,
     ctr |-> s.ctr, position |-> s.position, start_dt |-> s.start_dt,
     end_dt |-> s.end_dt, client |-> s.client]

NotMatchedRows(tgt, src) == LET Keep(s) == ~Matched(s, tgt) IN SelectSeq(src, Keep)

MatchedRows(tgt, src) == LET Keep(s) == Matched(s, tgt) IN SelectSeq(src, Keep)

MergeInto(tgt, src) ==
    [j \in 1..Len(tgt) |->
        IF Matching(tgt[j], src) = {} THEN tgt[j]
        ELSE UpdateRow(tgt[j], src[Min(Matching(tgt[j], src))])]
    \o [m \in 1..Len(NotMatchedRows(tgt, src)) |-> InsertRow(NotMatchedRows(tgt, src)[m])]

(***************************************************************************)
(* clear_s3_folder: the keys of response['Contents'], in key order, one    *)
(* page at most.                                                           *)
(***************************************************************************)
RECURSIVE KeysInOrder(_)
KeysInOrder(keys) ==
    IF keys = {} THEN << >> ELSE <<Min(keys)>> \o KeysInOrder(keys \ {Min(keys)})

ListContents(store) ==
    SubSeq(KeysInOrder(DOMAIN store), 1, MinOf(MaxKeys, Cardinality(DOMAIN store)))

(***************************************************************************)
(* The state before the first run.  The destination table is a table of    *)
(* the warehouse that other clients load too: it holds a row of one.       *)
(***************************************************************************)
Say(msg, arg) == <<msg, arg>>

CredValues == {"none", "empty", "set"}

ForeignRow ==
    [query |-> Queries[1], clicks |-> 7, impressions |-> 7, ctr |-> 7, position |-> 7,
     start_dt |-> DateStr[1], end_dt |-> DateStr[1], client |-> OtherClient]

UniqueKeys(tbl) ==
    \A j, m \in 1..Len(tbl) : MergeMatch(tbl[j], tbl[m]) => j = m

Has(seq, x) == \E j \in 1..Len(seq) : seq[j] = x

\* the MERGE of the run was executed
Merged(t) == Has(t, "merge")

NoPrev == [merged |-> FALSE, df |-> << >>, clean |-> FALSE]

Init ==
    /\ pc = "idle"
    /\ runNo = 0
    /\ creds = [account |-> "none", user |-> "none"]
    /\ BATCH_SIZE \in 1..MaxBatch
    /\ net = {}
    /\ conn = "none"
    /\ cursor = "none"
    /\ df = << >>
    /\ i = 0
    /\ uploaded = << >>
    /\ localFiles = EmptyMap
    /\ s3 = EmptyMap
    /\ staging = << >>
    /\ loadMeta = {}
    /\ dest = <<ForeignRow>>
    /\ listed = << >>
    /\ deleted = {}
    /\ trace = << >>
    /\ log = << >>
    /\ caught = 0
    /\ mergeIns = << >>
    /\ mergeUpd = << >>
    /\ start = [clean |-> FALSE, rows |-> 0]
    /\ prev = NoPrev

persistent == <<localFiles, s3, staging, loadMeta, dest>>

(***************************************************************************)
(* A new process: the module is imported (lines 1-50), then run_etl().     *)
(***************************************************************************)
StartRun ==
    /\ pc \in {"idle", "done", "exited", "crashed"}
    /\ runNo < MaxRuns
    /\ runNo' = runNo + 1
    /\ \E a \in CredValues, u \in CredValues : creds' = [account |-> a, user |-> u]
    /\ prev' = IF pc = "done" /\ Merged(trace)
               THEN [merged |-> TRUE, df |-> df, clean |-> start.clean]
               ELSE NoPrev
    /\ start' = [clean |-> staging = << >> /\ s3 = EmptyMap /\ UniqueKeys(dest),
                 rows |-> Len(dest)]
    /\ pc' = "install"
    /\ net' = {}
    /\ conn' = "none"
    /\ cursor' = "none"
    /\ df' = << >>
    /\ i' = 0
    /\ uploaded' = << >>
    /\ listed' = << >>
    /\ deleted' = {}
    /\ trace' = << >>
    /\ log' = << >>
    /\ caught' = 0
    /\ mergeIns' = << >>
    /\ mergeUpd' = << >>
    /\ UNCHANGED <<BATCH_SIZE, persistent>>

\* install_packages(): pip install -r requirements.txt; on failure sys.exit(1)
InstallPackages ==
    /\ pc = "install"
    /\ net' = net \cup {"pip.install"}
    /\ \E ok \in BOOLEAN :
        /\ log' = IF ok THEN log ELSE Append(log, Say("Failed to install packages", 0))
        /\ pc' = IF ok THEN "auth" ELSE "exited"
    /\ UNCHANGED <<runNo, creds, BATCH_SIZE, conn, cursor, df, i, uploaded, persistent,
                   listed, deleted, trace, caught, mergeIns, mergeUpd, start, prev>>

\* auth_search_console(): reads the credential file and builds the client of the
\* analytics API; an exception here is outside the try of run_etl
AuthSearchConsole ==
    /\ pc = "auth"
    /\ net' = net \cup {"google.build"}
    /\ \E ok \in BOOLEAN :
        pc' = IF ok THEN "connect" ELSE "crashed"
    /\ UNCHANGED <<runNo, creds, BATCH_SIZE, conn, cursor, df, i, uploaded, persistent,
                   listed, deleted, trace, log, caught, mergeIns, mergeUpd, start, prev>>

\* connect_snowflake(): ValueError when a credential is missing, also outside the try
ConnectSnowflake ==
    /\ pc = "connect"
    /\ IF CredentialsMissing(creds)
       THEN /\ pc' = "crashed"
            /\ UNCHANGED <<net, conn, log>>
       ELSE \E ok \in BOOLEAN :
            /\ net' = net \cup {"snowflake.connect"}
            /\ conn' = IF ok THEN "open" ELSE conn
            /\ log' = IF ok THEN Append(log, Say("Connected to Snowflake.", 0)) ELSE log
            /\ pc' = IF ok THEN "fetch" ELSE "crashed"
    /\ UNCHANGED <<runNo, creds, BATCH_SIZE, cursor, df, i, uploaded, persistent,
                   listed, deleted, trace, caught, mergeIns, mergeUpd, start, prev>>

\* lines 173-180 and 185-186: the two dates, the query, the frame, the branch on df.empty
FetchData ==
    /\ pc = "fetch"
    /\ net' = net \cup {"gsc.query"}
    /\ \E ok \in BOOLEAN, t \in Clock, response \in Responses :
        LET frame == FetchFrame(response, Yesterday(t[1]), Yesterday(t[2])) IN
        IF ~ok
        THEN /\ pc' = "except"
             /\ UNCHANGED <<df, trace, log>>
        ELSE /\ df' = frame
             /\ trace' = Append(trace, "query")
             /\ log' = (IF "rows" \in DOMAIN response THEN log
                        ELSE Append(log, Say("No data found.", 0)))
                       \o (IF DfEmpty(frame)
                           THEN <<Say("ETL process completed with no data to process.", 0)>>
                           ELSE << >>)
             /\ pc' = IF DfEmpty(frame) THEN "finally" ELSE "upload"
    /\ UNCHANGED <<runNo, creds, BATCH_SIZE, conn, cursor, i, uploaded, persistent,
                   listed, deleted, caught, mergeIns, mergeUpd, start, prev>>

(***************************************************************************)
(* upload_to_s3(df): one iteration of the loop per step.                   *)
(***************************************************************************)
LocalKept(files, k) == files

\* os.remove(file_name)
LocalRemoved(files, k) == Remove(files, k)

\* batch_data['client'] = CLIENT: made after to_csv, on the slice, so neither the
\* file nor df sees it
Retagged(batch) == [j \in 1..Len(batch) |-> [batch[j] EXCEPT !.client = CLIENT]]

UploadChunk ==
    /\ pc = "upload"
    /\ i < NumBatches(Len(df), BATCH_SIZE)
    /\ net' = net \cup {"s3.upload_file"}
    /\ \E ok \in BOOLEAN :
        LET batch_data == Batch(df, BATCH_SIZE, i)
            file_name == i + 1
            written == Put(localFiles, file_name, ToCsv(batch_data))
        IN  IF ok
            THEN /\ s3' = Put(s3, file_name, written[file_name])
                 /\ uploaded' = Append(uploaded, <<file_name, written[file_name]>>)
                 /\ trace' = Append(trace, "upload")
                 /\ localFiles' = LocalRemoved(written, file_name)
                 /\ log' = Append(log, Say("Uploaded", file_name))
                 /\ i' = i + 1
                 /\ pc' = "upload"
            ELSE /\ localFiles' = written
                 /\ pc' = "except"
                 /\ UNCHANGED <<s3, uploaded, trace, log, i>>
    /\ UNCHANGED <<runNo, creds, BATCH_SIZE, conn, cursor, df, staging, loadMeta, dest,
                   listed, deleted, caught, mergeIns, mergeUpd, start, prev>>

\* the loop is over: load_to_snowflake(conn) is next
UploadReturn ==
    /\ pc = "upload"
    /\ i >= NumBatches(Len(df), BATCH_SIZE)
    /\ pc' = "copy"
    /\ UNCHANGED <<runNo, creds, BATCH_SIZE, net, conn, cursor, df, i, uploaded,
                   persistent, listed, deleted, trace, log, caught, mergeIns, mergeUpd,
                   start, prev>>

(***************************************************************************)
(* load_to_snowflake(conn): a failed statement raises; the finally clause  *)
(* closes the cursor and the exception goes on to run_etl.                 *)
(***************************************************************************)
CopyInto ==
    /\ pc = "copy"
    /\ net' = net \cup {"snowflake.execute"}
    /\ \E ok \in BOOLEAN :
        IF ok
        THEN /\ cursor' = "open"
             /\ staging' = staging \o CopyRows(s3, ToLoad(s3, loadMeta))
             /\ loadMeta' = loadMeta \cup {<<k, s3[k]>> : k \in DOMAIN s3}
             /\ trace' = Append(trace, "copy")
             /\ log' = Append(log, Say("Data copied into staging table.", 0))
             /\ pc' = "merge"
        ELSE /\ cursor' = "closed"
             /\ pc' = "except"
             /\ UNCHANGED <<staging, loadMeta, trace, log>>
    /\ UNCHANGED <<runNo, creds, BATCH_SIZE, conn, df, i, uploaded, localFiles, s3,
                   dest, listed, deleted, caught, mergeIns, mergeUpd, start, prev>>

MergeStatement ==
    /\ pc = "merge"
    /\ net' = net \cup {"snowflake.execute"}
    /\ \E ok \in BOOLEAN :
        IF ok /\ ~NondeterministicMerge(dest, staging)
        THEN /\ dest' = MergeInto(dest, staging)
             /\ mergeIns' = NotMatchedRows(dest, staging)
             /\ mergeUpd' = MatchedRows(dest, staging)
             /\ trace' = Append(trace, "merge")
             /\ pc' = "truncate"
             /\ UNCHANGED cursor
        ELSE /\ cursor' = "closed"
             /\ pc' = "except"
             /\ UNCHANGED <<dest, mergeIns, mergeUpd, trace>>
    /\ UNCHANGED <<runNo, creds, BATCH_SIZE, conn, df, i, uploaded, localFiles, s3,
                   staging, loadMeta, listed, deleted, log, caught, start, prev>>

TruncateStagingSwallowed ==
    /\ pc = "truncate"
    /\ net' = net \cup {"snowflake.execute"}
    /\ cursor' = "closed"
    /\ \E ok \in BOOLEAN :
        IF ok
        THEN /\ staging' = << >>
             /\ loadMeta' = {}
             /\ trace' = Append(trace, "truncate")
             /\ log' = Append(log, Say("Data merged into target table.", 0))
             /\ pc' = "list"
        ELSE /\ pc' = "list"
             /\ UNCHANGED <<staging, loadMeta, trace, log>>
    /\ UNCHANGED <<runNo, creds, BATCH_SIZE, conn, df, i, uploaded, localFiles, s3,
                   dest, listed, deleted, caught, mergeIns, mergeUpd, start, prev>>

\* truncate also drops the load metadata of the table
TruncateStaging ==
    /\ pc = "truncate"
    /\ net' = net \cup {"snowflake.execute"}
    /\ cursor' = "closed"
    /\ \E ok \in BOOLEAN :
        IF ok
        THEN /\ staging' = << >>
             /\ loadMeta' = {}
             /\ trace' = Append(trace, "truncate")
             /\ log' = Append(log, Say("Data merged into target table.", 0))
             /\ pc' = "list"
        ELSE /\ pc' = "except"
             /\ UNCHANGED <<staging, loadMeta, trace, log>>
    /\ UNCHANGED <<runNo, creds, BATCH_SIZE, conn, df, i, uploaded, localFiles, s3,
                   dest, listed, deleted, caught, mergeIns, mergeUpd, start, prev>>

(***************************************************************************)
(* clear_s3_folder(), then line 184                                        *)
(***************************************************************************)
Completed == Say("ETL process completed successfully.", 0)

ListObjects ==
    /\ pc = "list"
    /\ net' = net \cup {"s3.list_objects_v2"}
    /\ \E ok \in BOOLEAN :
        IF ~ok
        THEN /\ pc' = "except"
             /\ UNCHANGED <<listed, trace, log>>
        ELSE /\ listed' = ListContents(s3)
             /\ trace' = Append(trace, "list")
             /\ log' = IF ListContents(s3) = << >>
                       THEN log \o <<Say("No objects found to delete.", 0), Completed>>
                       ELSE log
             /\ pc' = IF ListContents(s3) = << >> THEN "finally" ELSE "delete"
    /\ UNCHANGED <<runNo, creds, BATCH_SIZE, conn, cursor, df, i, uploaded,
                   persistent, deleted, caught, mergeIns, mergeUpd, start, prev>>

DeleteObject ==
    /\ pc = "delete"
    /\ net' = net \cup {"s3.delete_object"}
    /\ listed # << >>
    /\ \E ok \in BOOLEAN :
        IF ~ok
        THEN /\ pc' = "except"
             /\ UNCHANGED <<s3, listed, deleted, trace, log>>
        ELSE /\ s3' = Remove(s3, Head(listed))
             /\ deleted' = deleted \cup {Head(listed)}
             /\ listed' = Tail(listed)
             /\ trace' = Append(trace, "delete")
             /\ log' = Append(log, Say("Deleted", Head(listed)))
                       \o (IF Tail(listed) = << >> THEN <<Completed>> ELSE << >>)
             /\ pc' = IF Tail(listed) = << >> THEN "finally" ELSE "delete"
    /\ UNCHANGED <<runNo, creds, BATCH_SIZE, conn, cursor, df, i, uploaded,
                   localFiles, staging, loadMeta, dest, caught, mergeIns, mergeUpd,
                   start, prev>>

(***************************************************************************)
(* run_etl: the except clause followed by the finally clause, and the      *)
(* finally clause alone when nothing was raised.                           *)
(***************************************************************************)
RunEtlExceptNoClose ==
    /\ pc = "except"
    /\ caught' = caught + 1
    /\ log' = Append(log, Say("ETL process failed", 0))
    /\ pc' = "done"
    /\ UNCHANGED <<runNo, creds, BATCH_SIZE, net, conn, cursor, df, i, uploaded,
                   persistent, listed, deleted, trace, mergeIns, mergeUpd, start, prev>>

\* except Exception as e: print(...); finally: conn.close()
RunEtlExcept ==
    /\ pc = "except"
    /\ caught' = caught + 1
    /\ log' = Append(log, Say("ETL process failed", 0))
    /\ conn' = "closed"
    /\ pc' = "done"
    /\ UNCHANGED <<runNo, creds, BATCH_SIZE, net, cursor, df, i, uploaded,
                   persistent, listed, deleted, trace, mergeIns, mergeUpd, start, prev>>

\* finally: conn.close()
RunEtlFinally ==
    /\ pc = "finally"
    /\ conn' = "closed"
    /\ pc' = "done"
    /\ UNCHANGED <<runNo, creds, BATCH_SIZE, net, cursor, df, i, uploaded, persistent,
                   listed, deleted, trace, log, caught, mergeIns, mergeUpd, start, prev>>

Next ==
    \/ StartRun
    \/ InstallPackages
    \/ AuthSearchConsole
    \/ ConnectSnowflake
    \/ FetchData
    \/ UploadChunk
    \/ UploadReturn
    \/ CopyInto
    \/ MergeStatement
    \/ TruncateStaging
    \/ ListObjects
    \/ DeleteObject
    \/ RunEtlExcept
    \/ RunEtlFinally

Spec == Init /\ [][Next]_vars

(***************************************************************************)
(* upload_to_s3 on its own: it is entered with any frame, the empty one    *)
(* included, and runs until it returns or raises.                          *)
(***************************************************************************)
Frames ==
    {FetchFrame(response, Yesterday(t[1]), Yesterday(t[2])) :
        response \in Responses, t \in Clock}

InitUpload ==
    /\ pc = "upload"
    /\ runNo = 1
    /\ creds = [account |-> "set", user |-> "set"]
    /\ BATCH_SIZE \in 1..MaxBatch
    /\ net = {"pip.install", "google.build", "snowflake.connect", "gsc.query"}
    /\ conn = "open"
    /\ cursor = "none"
    /\ df \in Frames
    /\ i = 0
    /\ uploaded = << >>
    /\ localFiles = EmptyMap
    /\ s3 = EmptyMap
    /\ staging = << >>
    /\ loadMeta = {}
    /\ dest = <<ForeignRow>>
    /\ listed = << >>
    /\ deleted = {}
    /\ trace = <<"query">>
    /\ log = <<Say("Connected to Snowflake.", 0)>>
    /\ caught = 0
    /\ mergeIns = << >>
    /\ mergeUpd = << >>
    /\ start = [clean |-> TRUE, rows |-> 1]
    /\ prev = NoPrev

NextUpload ==
    \/ UploadChunk
    \/ UploadReturn

SpecUpload == InitUpload /\ [][NextUpload]_vars

(***************************************************************************)
(* Properties                                                              *)
(***************************************************************************)
Count(seq, x) == Cardinality({j \in 1..Len(seq) : seq[j] = x})

\* the rows of a frame as the warehouse reads them back from the staged files
Staged(d) == [j \in 1..Len(d) |-> ParseLine(CsvLine(d[j]))]

\* this run and the run before it both executed their MERGE, on the same rows
\* for the same date range
SecondRun == pc = "done" /\ Merged(trace) /\ prev.merged /\ prev.df = df

\* C1: when the pipeline has run twice for the same date range on the same source
\* rows, the second run inserts nothing: the destination has as many rows as before
\* it, every row of the second run was applied as an update, and, the first run
\* having started from empty working areas and a destination without duplicate keys,
\* the destination holds at most one row per (query, start_dt, end_dt).
C1_SecondRunOnlyUpdates ==
    SecondRun =>
        /\ mergeIns = << >>
        /\ Len(dest) = start.rows
        /\ \A j \in 1..Len(df) : Has(mergeUpd, Staged(df)[j])
        /\ \A j \in 1..Len(df) :
             \E m \in 1..Len(dest) :
                /\ dest[m].query = df[j].Query
                /\ dest[m].start_dt = df[j].start_dt
                /\ dest[m].end_dt = df[j].end_dt
        /\ prev.clean =>
             \A j, m \in 1..Len(dest) :
                (/\ dest[j].query = dest[m].query
                 /\ dest[j].start_dt = dest[m].start_dt
                 /\ dest[j].end_dt = dest[m].end_dt) => j = m

C1_Witness ==
    /\ SecondRun
    /\ caught = 0
    /\ prev.clean
    /\ Len(df) = 2
    /\ df[1].start_dt # df[1].end_dt
    /\ Len(mergeUpd) = 2

\* C2: when upload_to_s3 returns, it has uploaded floor(n/b) + 1 files, numbered
\* 1..k in order; file f holds the header and the records at positions
\* [(f-1)*b, min(f*b, n)) in their order, so at most b records; every record is in
\* exactly one file and the last file holds no record when n is a multiple of b.
C2_Batches ==
    pc = "copy" =>
        LET n == Len(df)
            b == BATCH_SIZE
            k == (n \div b) + 1
            Records(f) == Tail(uploaded[f][2])
        IN  /\ Len(uploaded) = k
            /\ \A f \in 1..k :
                /\ uploaded[f][1] = f
                /\ f \in DOMAIN s3 /\ s3[f] = uploaded[f][2]
                /\ Head(uploaded[f][2]) = Header
                /\ Records(f) = [j \in 1..(MinOf(f * b, n) - (f - 1) * b) |->
                                    CsvLine(df[(f - 1) * b + j])]
                /\ Len(Records(f)) <= b
            /\ \A r \in 1..n :
                Cardinality({f \in 1..k : Has(Records(f), CsvLine(df[r]))}) = 1
            /\ (n % b = 0) => Records(k) = << >>

C2_Witness ==
    /\ pc = "copy"
    /\ Len(df) = 2
    /\ BATCH_SIZE = 2
    /\ Len(uploaded) = 2
    /\ Len(uploaded[1][2]) = 3
    /\ uploaded[2][2] = <<Header>>

StoreCalls == {"s3.upload_file", "s3.list_objects_v2", "s3.delete_object"}

NoData == Say("ETL process completed with no data to process.", 0)

Failed == Say("ETL process failed", 0)

\* C3: when the source query returned zero rows, the run uploads nothing, executes
\* no statement, makes no call to the object store, catches no exception, prints
\* the no-data line, and ends with the connection closed.
C3_EmptyResponse ==
    (Has(trace, "query") /\ Len(df) = 0) =>
        /\ trace = <<"query">>
        /\ uploaded = << >>
        /\ deleted = {}
        /\ net \cap (StoreCalls \cup {"snowflake.execute"}) = {}
        /\ cursor = "none"
        /\ caught = 0
        /\ pc \in {"finally", "done"}
        /\ Count(log, NoData) = 1
        /\ ~Has(log, Failed)
        /\ pc = "done" => conn = "closed"

C3_Witness ==
    /\ Has(trace, "query")
    /\ Len(df) = 0
    /\ pc = "done"
    /\ conn = "closed"
    /\ runNo = 2
    /\ DOMAIN s3 # {}

\* C4: the local file of every chunk this run has uploaded is gone, at every later
\* point of the run, also after a later chunk's upload has failed.
C4_LocalFilesRemoved ==
    \A j \in 1..Len(uploaded) : uploaded[j][1] \notin DOMAIN localFiles

C4_Witness ==
    /\ pc = "done"
    /\ caught = 1
    /\ Len(uploaded) = 2
    /\ DOMAIN localFiles = {3}

\* C5 as stated: with the warehouse account or user absent, the run fails before
\* any call that goes to the network, the package installation included.
C5_NoNetworkCallAtAll ==
    (pc # "idle" /\ ("none" \in {creds.account, creds.user})) => net = {}

\* C5: with the warehouse account or user absent (or empty), the run ends at
\* connect_snowflake at the latest, uncaught: it opens no connection and makes no
\* analytics query, no object-store call and no warehouse call.  The package
\* installation and the construction of the analytics client come first.
C5_FailsBeforeQueryStoreWarehouse ==
    (pc # "idle" /\ (Falsy(creds.account) \/ Falsy(creds.user))) =>
        /\ net \subseteq {"pip.install", "google.build"}
        /\ pc \in {"install", "auth", "connect", "exited", "crashed"}
        /\ conn = "none"
        /\ trace = << >>
        /\ caught = 0

C5_Witness ==
    /\ pc = "crashed"
    /\ creds = [account |-> "set", user |-> "none"]
    /\ net = {"pip.install", "google.build"}
    /\ conn = "none"

\* C6 as stated: after a load that succeeded and a cleanup that raised nothing,
\* every object under the prefix has been deleted and the prefix lists empty.
C6_PrefixEmptyAfterCleanup ==
    (pc = "done" /\ caught = 0 /\ Has(trace, "list")) => s3 = EmptyMap

\* C7 as stated: the staging table is empty whenever a run starts.
C7_StagingEmptyAtRunStart ==
    pc = "install" => staging = << >>

\* C8: a run that got its connection ends with the connection closed, whether it
\* succeeded or raised in fetch, upload, load or cleanup; the exception is caught
\* once and logged once, and nothing escapes run_etl once the try is entered.
C8_CaughtAndClosed ==
    /\ pc = "done" =>
        /\ conn = "closed"
        /\ caught \in {0, 1}
        /\ Count(log, Failed) = caught
        /\ caught = 0 <=> (Has(log, Completed) \/ Has(log, NoData))
    /\ pc \in {"exited", "crashed"} => conn = "none"
    /\ pc = "finally" => caught = 0 /\ ~Has(log, Failed)

C8_Witness ==
    /\ pc = "done"
    /\ caught = 1
    /\ conn = "closed"
    /\ Has(trace, "delete")
    /\ Has(log, Failed)

LoadedTrace(k) ==
    <<"query">> \o [j \in 1..k |-> "upload"] \o <<"copy", "merge", "truncate">>

\* C9: the object store is listed or deleted from only after every chunk was
\* uploaded and COPY, MERGE and truncate succeeded, in that order; in a run whose
\* upload or load failed nothing is deleted and every file the run staged is still
\* in the object store as it was uploaded.
C9_CleanupOnlyAfterLoad ==
    LET k == (Len(df) \div BATCH_SIZE) + 1 IN
    /\ (pc \in {"list", "delete"} \/ net \cap {"s3.list_objects_v2", "s3.delete_object"} # {}) =>
        /\ Len(uploaded) = k
        /\ Len(trace) >= k + 4
        /\ SubSeq(trace, 1, k + 4) = LoadedTrace(k)
    /\ ~Has(trace, "truncate") =>
        /\ deleted = {}
        /\ net \cap {"s3.list_objects_v2", "s3.delete_object"} = {}
        /\ \A j \in 1..Len(uploaded) :
            /\ uploaded[j][1] \in DOMAIN s3
            /\ s3[uploaded[j][1]] = uploaded[j][2]

C9_Witness ==
    /\ pc = "done"
    /\ caught = 1
    /\ trace = <<"query", "upload", "upload", "copy">>
    /\ DOMAIN s3 = {1, 2}
    /\ deleted = {}

\* C10 as stated: a destination row that belongs to another client is never
\* overwritten by the merge.
C10_OtherClientRowsKept ==
    [][\A j \in 1..Len(dest) : dest[j].client # client => dest'[j] = dest[j]]_vars

SameTriple(t, r) ==
    t.query = r.query /\ t.start_dt = r.start_dt /\ t.end_dt = r.end_dt

\* C10: the MERGE matches on (query, start_dt, end_dt) alone, whatever the client:
\* a destination row with the triple of a staging row takes that row's metrics and
\* client tag, every other destination row is left as it is, and exactly the
\* staging rows whose triple no destination row has are inserted.
C10_MergeKeyedOnTripleOnly ==
    [][(pc = "merge" /\ pc' = "truncate") =>
        LET New == {m \in 1..Len(staging) :
                        \A j \in 1..Len(dest) : ~SameTriple(dest[j], staging[m])}
        IN  /\ Len(dest') = Len(dest) + Cardinality(New)
            /\ \A j \in 1..Len(dest) :
                IF \E m \in 1..Len(staging) : SameTriple(dest[j], staging[m])
                THEN \E m \in 1..Len(staging) :
                        /\ SameTriple(dest[j], staging[m])
                        /\ SameTriple(dest'[j], staging[m])
                        /\ dest'[j].clicks = staging[m].clicks
                        /\ dest'[j].impressions = staging[m].impressions
                        /\ dest'[j].ctr = staging[m].ctr
                        /\ dest'[j].position = staging[m].position
                        /\ dest'[j].client = staging[m].client
                ELSE dest'[j] = dest[j]
            /\ \A m \in New :
                \E j \in (Len(dest) + 1)..Len(dest') :
                    /\ SameTriple(dest'[j], staging[m])
                    /\ dest'[j].clicks = staging[m].clicks
                    /\ dest'[j].client = staging[m].client]_vars

\* a row of another client has been overwritten and re-tagged by the first run
C10_Witness ==
    /\ pc = "truncate"
    /\ runNo = 1
    /\ start.rows = 1
    /\ Len(dest) = 2
    /\ dest[1].query = ForeignRow.query
    /\ dest[1].start_dt = ForeignRow.start_dt
    /\ dest[1].client = client
    /\ dest[1].clicks # ForeignRow.clicks
    /\ Len(mergeUpd) = 1
    /\ Len(mergeIns) = 1

====
